---- MODULE Spec2Model ----
(***************************************************************************)
(* mender-rust: a command line client of a Mender server.                  *)
(* One behaviour of the model is one process invocation: main() matches    *)
(* the command line with clap, parses it again with parse::Command::new,   *)
(* loads the configuration from the environment and runs one operation of  *)
(* mender.rs against a server whose answers are nondeterministic.          *)
(***************************************************************************)
EXTENDS Integers, Sequences, FiniteSets, TLC

VARIABLES
    pc,               \* position of the process in main / run / the operation
    args,             \* env::args(): the command line, program name first
    env,              \* the environment variables SERVER_URL, TOKEN, CERT_FILE
    command,          \* the parse::Command built by Command::new
    conf,             \* the parse::Config handed to the operation
    page,             \* the Option<page index> of the running paginated loop
    devices,          \* deploy: the accumulated Vec<String> of device ids
    artifacts_count,  \* count_artifacts: the HashMap<String, i32>
    reqs,             \* every request sent to the server, in order
    resps,            \* the server's answer to each request, in order
    result,           \* the Result returned by the operation to run()
    exit_code,        \* the process exit status
    stdout            \* what the process printed, in order

vars == <<pc, args, env, command, conf, page, devices, artifacts_count,
          reqs, resps, result, exit_code, stdout>>

-----------------------------------------------------------------------------
(* Bounds of the model *)

\* the longest command line: number of arguments after the command word
MaxArgs == 4
\* the most items (device ids, identity records, inventory devices) the
\* server holds behind one listing endpoint
MaxDevices == 3

-----------------------------------------------------------------------------
(* Option<T>, Result<T, E> *)

None == <<>>
Some(v) == <<v>>
IsSome(o) == Len(o) = 1
Unwrap(o) == o[1]

Ok(v) == [kind |-> "Ok", value |-> v]
Err(e) == [kind |-> "Err", err |-> e]
NoResult == [kind |-> "none"]

\* the sequences over S of length at most n
SeqsUpTo(S, n) == UNION {[1..k -> S] : k \in 0..n}

\* the concatenation of a sequence of sequences
RECURSIVE Flatten(_)
Flatten(ss) ==
    IF ss = <<>> THEN <<>> ELSE Flatten(SubSeq(ss, 1, Len(ss) - 1)) \o ss[Len(ss)]

-----------------------------------------------------------------------------
(* The command line *)

ProgramName == "mender-rust"
\* the words tried as the first argument: the subcommands and an unknown word
CommandWords == {"help", "login", "deploy", "getid", "getinfo", "countartifacts", "zz"}
\* the plain values given on a command line: group, device, artifact, name,
\* serial number, email
Values == {"a", "b"}
\* what may follow the command word
ArgTokens == {"-g", "-d"} \cup Values
ArgVectors ==
    {<<ProgramName>>} \cup
    {<<ProgramName, w>> \o rest : w \in CommandWords, rest \in SeqsUpTo(ArgTokens, MaxArgs)}

IsFlag(t) == t \in {"-g", "-d"}

\* main.rs, the clap declaration of the deploy subcommand: the positions of the
\* option flags, of their values and of the positional arguments in rest
FlagAt(rest) == {i \in 1..Len(rest) : IsFlag(rest[i])}
ValueAt(rest) == {i \in 2..Len(rest) : IsFlag(rest[i - 1])}
PositionalAt(rest) == (1..Len(rest)) \ (FlagAt(rest) \cup ValueAt(rest))
OptionValue(rest, flag) ==
    IF \E i \in FlagAt(rest) : rest[i] = flag /\ i < Len(rest)
    THEN Some(rest[(CHOOSE i \in FlagAt(rest) : rest[i] = flag) + 1])
    ELSE None
NthPositional(rest, n) ==
    IF Cardinality(PositionalAt(rest)) >= n
    THEN Some(rest[CHOOSE i \in PositionalAt(rest) :
                     Cardinality({j \in PositionalAt(rest) : j < i}) = n - 1])
    ELSE None

\* (mutant) the target options are neither required nor in conflict
ClapDeployAcceptsAnyTarget(rest) ==
    /\ \A i \in FlagAt(rest) : i < Len(rest) /\ ~IsFlag(rest[i + 1])
    /\ Cardinality(PositionalAt(rest)) \in {1, 2}
\* deploy: -g <group> and -d <device> take one value each, are given at most
\* once, conflict with each other and one of them is required; <artifact> is
\* required and [name] optional
ClapDeployAccepts(rest) ==
    /\ \A i \in FlagAt(rest) : i < Len(rest) /\ ~IsFlag(rest[i + 1])
    /\ Cardinality(FlagAt(rest)) = 1
    /\ Cardinality(PositionalAt(rest)) \in {1, 2}

\* App::get_matches: "ok" when the command line matches the declaration,
\* "help" when clap prints its help (exit status 0), "error" when clap
\* rejects the command line (exit status 1)
GetMatches(argv) ==
    LET rest == SubSeq(argv, 3, Len(argv)) IN
    IF Len(argv) = 1 THEN "ok"
    ELSE CASE argv[2] = "help" ->
                IF Len(argv) = 2 THEN "help" ELSE "error"
           [] argv[2] \in {"login", "getid", "getinfo"} ->
                IF Len(rest) = 1 /\ ~IsFlag(rest[1]) THEN "ok" ELSE "error"
           [] argv[2] = "countartifacts" ->
                IF Len(rest) = 0 THEN "ok" ELSE "error"
           [] argv[2] = "deploy" ->
                IF ClapDeployAccepts(rest) THEN "ok" ELSE "error"
           [] OTHER -> "error"

\* the deploy target and arguments as the clap declaration names them
ClapGroup(argv) == OptionValue(SubSeq(argv, 3, Len(argv)), "-g")
ClapDevice(argv) == OptionValue(SubSeq(argv, 3, Len(argv)), "-d")
ClapArtifact(argv) == NthPositional(SubSeq(argv, 3, Len(argv)), 1)
ClapName(argv) == NthPositional(SubSeq(argv, 3, Len(argv)), 2)

-----------------------------------------------------------------------------
(* parse.rs *)

HELP_STR == "This is mender-rust utility"

NoCommand == [variant |-> "none"]
Login(email) == [variant |-> "Login", email |-> email]
Deploy(group, artifact, name) ==
    [variant |-> "Deploy", group |-> group, artifact |-> artifact, name |-> name]
GetId(serial_number) == [variant |-> "GetId", serial_number |-> serial_number]
GetInfo(id) == [variant |-> "GetInfo", id |-> id]
CountArtifacts == [variant |-> "CountArtifacts"]
Help == [variant |-> "Help"]

\* Command::new
CommandNew(argv) ==
    IF Len(argv) = 1 THEN Err(HELP_STR)
    ELSE CASE argv[2] = "help" -> Ok(Help)
           [] argv[2] = "countartifacts" -> Ok(CountArtifacts)
           [] argv[2] = "login" ->
                IF Len(argv) < 3
                THEN Err("email must be provided in login command")
                ELSE Ok(Login(argv[3]))
           [] argv[2] = "deploy" ->
                IF Len(argv) < 4
                THEN Err("group and artifact must be provided in deploy command")
                ELSE Ok(Deploy(argv[3], argv[4],
                               IF Len(argv) = 5 THEN argv[5] ELSE ""))
           [] argv[2] = "getid" ->
                IF Len(argv) < 3
                THEN Err("serial number must be provided in getid command")
                ELSE Ok(GetId(argv[3]))
           [] argv[2] = "getinfo" ->
                IF Len(argv) < 3
                THEN Err("id must be provided in getinfo command")
                ELSE Ok(GetInfo(argv[3]))
           [] OTHER -> Err("unrecognized command, run help to see available commands")

\* the environment: each variable is unset (None) or set
Environments ==
    [SERVER_URL : {None, Some("https://mender")},
     TOKEN : {None, Some("tok")},
     CERT_FILE : {None, Some("ca.pem")}]

NoConf == [command |-> NoCommand, token |-> None, server_url |-> "", cert_file |-> None]

\* (mutant) deploy is left out of the commands that need the token
NeedsTokenButDeploy(cmd) == cmd.variant \in {"GetId", "GetInfo", "CountArtifacts"}
NeedsToken(cmd) == cmd.variant \in {"Deploy", "GetId", "GetInfo", "CountArtifacts"}

\* Config::new
ConfigNew(cmd, e) ==
    IF ~IsSome(e.SERVER_URL)
    THEN Err("SERVER_URL env variable must be defined")
    ELSE IF NeedsToken(cmd) /\ e.TOKEN = None
    THEN Err("TOKEN must be provided for deploy, getid, getinfo and countartifacts commands")
    ELSE Ok([command |-> cmd, token |-> e.TOKEN,
             server_url |-> Unwrap(e.SERVER_URL), cert_file |-> e.CERT_FILE])

-----------------------------------------------------------------------------
(* mender.rs: errors, requests and the server's answers *)

LOGIN_API == "/api/management/v1/useradm/auth/login"
DEPLOY_API == "/api/management/v1/deployments/deployments"
GET_DEVICES_INVENTORY_API == "/api/management/v1/inventory/devices"
GET_DEVICES_AUTH_API == "/api/management/v2/devauth/devices"
GROUPS_PATH == "/api/management/v1/inventory/groups/"

\* (mutant) the response text is left out of the message
MenderErrorNoResponse(msg, group, status, response) ==
    [type |-> "MenderError", msg |-> msg, group |-> group,
     status |-> status, response |-> ""]
\* MenderError::new(format!(...)): the message, and the group, status code and
\* response text formatted into it
MenderError(msg, group, status, response) ==
    [type |-> "MenderError", msg |-> msg, group |-> group,
     status |-> status, response |-> response]
\* the reqwest / io errors propagated by the ? operator
OtherError(type, msg) ==
    [type |-> type, msg |-> msg, group |-> "", status |-> 0, response |-> ""]

\* (mutant) the request is sent without the token
BearerAnonymous(token) == [scheme |-> "bearer", user |-> "", secret |-> ""]
Bearer(token) == [scheme |-> "bearer", user |-> "", secret |-> token]
Basic(user, pass) == [scheme |-> "basic", user |-> user, secret |-> pass]

\* a request: the url as the parts formatted into it, the query as key/value
\* pairs, the authentication and the JSON body
Request(method, url, query, auth, data) ==
    [method |-> method, url |-> url, query |-> query, auth |-> auth, data |-> data]

HasQuery(req, key) == \E i \in 1..Len(req.query) : req.query[i][1] = key
QueryValue(req, key) ==
    req.query[CHOOSE i \in 1..Len(req.query) : req.query[i][1] = key][2]

\* the answers of the server: no answer at all (the transport failed), a
\* status with a response text, and for a success status the decoded JSON
\* body, None when the body does not decode into the expected shape
TransportError == [sent |-> FALSE, status |-> 0, text |-> "", json |-> None]
Failure(status) == [sent |-> TRUE, status |-> status, text |-> "denied", json |-> None]
\* a non-success status whose body happens to be the JSON list []
FailureWithList == [sent |-> TRUE, status |-> 404, text |-> "[]", json |-> Some(<<>>)]
Undecodable == [sent |-> TRUE, status |-> 200, text |-> "<html>", json |-> None]
Success(body) == [sent |-> TRUE, status |-> 200, text |-> "", json |-> Some(body)]

FailureStatuses == {404, 500}
\* (mutant) only server errors count as failures
IsSuccessLax(status) == status >= 200 /\ status < 500
\* StatusCode::is_success
IsSuccess(status) == status >= 200 /\ status < 300

\* the items the server holds
DeviceIds == {"d1", "d2"}
MenderId(id) == [id |-> id]
MenderIdentity(id, sn) == [id |-> id, identity_data |-> [SerialNumber |-> sn]]
MenderAttribute(name, value) == [name |-> name, value |-> value]
MenderDevice(id, attributes) == [id |-> id, attributes |-> attributes]
Identities == {MenderIdentity(id, sn) : id \in DeviceIds, sn \in Values}
InventoryDevices ==
    {MenderDevice("d1", None),
     MenderDevice("d1", Some(<<MenderAttribute("device_type", "a")>>)),
     MenderDevice("d1", Some(<<MenderAttribute("artifact_name", "a")>>)),
     MenderDevice("d1", Some(<<MenderAttribute("device_type", "a"),
                               MenderAttribute("artifact_name", "b")>>)),
     MenderDevice("d1", Some(<<MenderAttribute("artifact_name", "b"),
                               MenderAttribute("artifact_name", "a")>>))}

\* the number of items carried so far by the answers to paged requests
RECURSIVE ItemsReceived(_, _)
ItemsReceived(rq, rs) ==
    IF rs = <<>> THEN 0
    ELSE ItemsReceived(SubSeq(rq, 1, Len(rq) - 1), SubSeq(rs, 1, Len(rs) - 1))
         + (IF HasQuery(rq[Len(rq)], "page") /\ IsSome(rs[Len(rs)].json)
            THEN Len(Unwrap(rs[Len(rs)].json)) ELSE 0)
\* the items the listing endpoint still holds
Remaining == MaxDevices - ItemsReceived(reqs, resps)

\* the answers to a listing request over items of S, at most n of them
ListingAnswers(S, n) ==
    {TransportError, Undecodable, FailureWithList}
    \cup {Failure(s) : s \in FailureStatuses}
    \cup {Success(p) : p \in SeqsUpTo(S, n)}
\* the answers to a request whose body is not a list
PlainAnswers(bodies) ==
    {TransportError} \cup {Failure(s) : s \in FailureStatuses}
    \cup {Success(b) : b \in bodies}
\* the answers to the login request: the token is the response text
LoginAnswers ==
    {TransportError} \cup {Failure(s) : s \in FailureStatuses}
    \cup {[sent |-> TRUE, status |-> 200, text |-> "jwt", json |-> None]}
\* the answers to the deployment request: 201 Created on success
DeployAnswers ==
    {TransportError} \cup {Failure(s) : s \in FailureStatuses}
    \cup {[sent |-> TRUE, status |-> 201, text |-> "", json |-> None]}

-----------------------------------------------------------------------------
(* main.rs *)

Line(text, arg) == [text |-> text, arg |-> arg]

Init ==
    /\ pc = "main"
    /\ args \in ArgVectors
    /\ env \in Environments
    /\ command = NoCommand
    /\ conf = NoConf
    /\ page = None
    /\ devices = <<>>
    /\ artifacts_count = [k \in {} |-> 0]
    /\ reqs = <<>>
    /\ resps = <<>>
    /\ result = NoResult
    /\ exit_code = -1
    /\ stdout = <<>>

\* process::exit(code)
Exit(code, out) ==
    /\ pc' = "exit"
    /\ exit_code' = code
    /\ stdout' = out

\* (mutant) main exits with status 0 after an error of run
ReturnZero(res, okText, out) ==
    /\ result' = res
    /\ IF res.kind = "Err"
       THEN Exit(0, Append(out, Line("Run error: {}", res.err)))
       ELSE Exit(0, Append(out, Line(okText, res.value)))
\* the operation returns res to run(), which prints okText with the value and
\* returns Ok(()), or propagates the error to main, which prints it and exits
\* with status 2
Return(res, okText, out) ==
    /\ result' = res
    /\ IF res.kind = "Err"
       THEN Exit(2, Append(out, Line("Run error: {}", res.err)))
       ELSE Exit(0, Append(out, Line(okText, res.value)))

\* main: App::get_matches
Main ==
    /\ pc = "main"
    /\ LET m == GetMatches(args) IN
       IF m = "ok"
       THEN /\ pc' = "parse"
            /\ UNCHANGED <<exit_code, stdout>>
       ELSE Exit(IF m = "help" THEN 0 ELSE 1, Append(stdout, Line("clap", m)))
    /\ UNCHANGED <<args, env, command, conf, page, devices, artifacts_count,
                   reqs, resps, result>>

\* main: Command::new(&args), and the help command
Parse ==
    /\ pc = "parse"
    /\ LET c == CommandNew(args) IN
       IF c.kind = "Err"
       THEN /\ Exit(1, Append(stdout, Line("Parse error: {}", c.err)))
            /\ UNCHANGED command
       ELSE /\ command' = c.value
            /\ IF c.value = Help
               THEN Exit(0, Append(stdout, Line("{}", HELP_STR)))
               ELSE /\ pc' = "config"
                    /\ UNCHANGED <<exit_code, stdout>>
    /\ UNCHANGED <<args, env, conf, page, devices, artifacts_count,
                   reqs, resps, result>>

\* main: Config::new(command)
LoadConfig ==
    /\ pc = "config"
    /\ LET c == ConfigNew(command, env) IN
       IF c.kind = "Err"
       THEN /\ Exit(1, Append(stdout, Line("Config error: {}", c.err)))
            /\ UNCHANGED conf
       ELSE /\ conf' = c.value
            /\ pc' = "run"
            /\ UNCHANGED <<exit_code, stdout>>
    /\ UNCHANGED <<args, env, command, page, devices, artifacts_count,
                   reqs, resps, result>>

\* (mutant) run hands every command to count_artifacts
OperationAlwaysCount(cmd) ==
    IF cmd.variant \in {"Login", "Deploy", "GetId", "GetInfo", "CountArtifacts"}
    THEN "count_artifacts" ELSE "none"
\* run: the operation of each command variant
Operation(cmd) ==
    CASE cmd.variant = "Login" -> "get_token"
      [] cmd.variant = "Deploy" -> "deploy"
      [] cmd.variant = "GetId" -> "get_id"
      [] cmd.variant = "GetInfo" -> "get_info"
      [] cmd.variant = "CountArtifacts" -> "count_artifacts"
      [] OTHER -> "none"

\* run(config): the match on config.command up to the call of the operation;
\* the Login arm reads the password from stdin first
Run ==
    /\ pc = "run"
    /\ LET op == Operation(conf.command) IN
       IF op = "none"
       THEN /\ Exit(0, Append(stdout, Line("Another command", "")))
            /\ UNCHANGED result
       ELSE IF op = "get_token"
       THEN \E read \in BOOLEAN :
              IF read
              THEN /\ pc' = op
                   /\ stdout' = Append(stdout, Line("Type password:", ""))
                   /\ UNCHANGED <<exit_code, result>>
              ELSE Return(Err(OtherError("io", "read_line")), "",
                          Append(stdout, Line("Type password:", "")))
       ELSE /\ pc' = op
            /\ UNCHANGED <<exit_code, stdout, result>>
    /\ UNCHANGED <<args, env, command, conf, page, devices, artifacts_count,
                   reqs, resps>>

-----------------------------------------------------------------------------
(* mender.rs: the operations *)

\* blocking_client: with a certificate file, opening and reading it or
\* decoding its PEM content may fail
ClientOutcomes(cert_file) ==
    IF IsSome(cert_file) THEN {"ok", "io", "reqwest"} ELSE {"ok"}

Send(req, resp) ==
    /\ reqs' = Append(reqs, req)
    /\ resps' = Append(resps, resp)

\* let mut page = Some(1)
FIRST_PAGE == 1
\* the page counter is unbounded in the code; a server holding MaxDevices
\* items is asked for page MaxDevices + 1 at most
PageCap == MaxDevices + 1
\* (mutant) the loop goes on after an empty page
NextPageForever(page_idx, len) == Some(page_idx + 1)
\* (mutant) the page index advances by two
NextPageSkip(page_idx, len) == IF len = 0 THEN None ELSE Some(page_idx + 2)
\* (mutant) a page shorter than two items ends the loop
NextPageShort(page_idx, len) == IF len < 2 THEN None ELSE Some(page_idx + 1)
\* page = if res.len() == 0 { None } else { Some(page_idx + 1) }
NextPage(page_idx, len) == IF len = 0 THEN None ELSE Some(page_idx + 1)
\* count_artifacts: page = if nb_devices > 0 { Some(page_idx + 1) } else { None }
NextPageOfInventory(page_idx, nb_devices) ==
    IF nb_devices > 0 THEN Some(page_idx + 1) ELSE None
\* .query(&[("per_page", "500"), ("page", &page_idx.to_string())])
PagedQuery(page_idx) == <<<<"per_page", "500">>, <<"page", ToString(page_idx)>>>>

\* get_token
GetToken ==
    /\ pc = "get_token"
    /\ IF conf.command.variant = "Login"
       THEN \E c \in ClientOutcomes(conf.cert_file), pass \in {"secret"} :
              IF c # "ok"
              THEN /\ Return(Err(OtherError(c, "blocking_client")), "", stdout)
                   /\ UNCHANGED <<reqs, resps>>
              ELSE \E resp \in LoginAnswers :
                     /\ Send(Request("POST", <<conf.server_url, LOGIN_API>>, <<>>,
                                     Basic(conf.command.email, pass), None), resp)
                     /\ IF ~resp.sent
                        THEN Return(Err(OtherError("reqwest", "send")), "", stdout)
                        ELSE IF IsSuccess(resp.status)
                        THEN Return(Ok(resp.text), "Token {}", stdout)
                        ELSE Return(Err(MenderError("login error", "",
                                                    resp.status, resp.text)), "", stdout)
       ELSE /\ Return(Err(MenderError("Command must be Login for get_token",
                                      "", 0, "")), "", stdout)
            /\ UNCHANGED <<reqs, resps>>
    /\ UNCHANGED <<args, env, command, conf, page, devices, artifacts_count>>

DeployData(artifact_name, name, devs) ==
    [artifact_name |-> artifact_name, name |-> name, devices |-> devs]

\* (mutant) the page is put in front of the devices listed so far
ExtendFront(vec, res) == res \o vec
\* devices.append(&mut res)
Extend(vec, res) == vec \o res

\* let name = if name.is_empty() { group } else { name }
DeployName(group, name) == IF name = "" THEN group ELSE name

\* deploy, up to the listing loop
DeployEnter ==
    /\ pc = "deploy"
    /\ IF conf.command.variant = "Deploy" /\ IsSome(conf.token)
       THEN LET c0 == conf.command
                out == Append(stdout,
                              Line("Posting deployment to group {} using artifact {} and with name {}.",
                                   <<c0.group, c0.artifact, DeployName(c0.group, c0.name)>>))
            IN \E c \in ClientOutcomes(conf.cert_file) :
                 IF c = "ok"
                 THEN /\ pc' = "deploy_list"
                      /\ page' = Some(FIRST_PAGE)
                      /\ devices' = <<>>
                      /\ stdout' = out
                      /\ UNCHANGED <<result, exit_code>>
                 ELSE /\ Return(Err(OtherError(c, "blocking_client")), "", out)
                      /\ UNCHANGED <<page, devices>>
       ELSE /\ Return(Err(MenderError("Command must be Deploy and token must be provided for deploy",
                                      "", 0, "")), "", stdout)
            /\ UNCHANGED <<page, devices>>
    /\ UNCHANGED <<args, env, command, conf, artifacts_count, reqs, resps>>

\* deploy: one iteration of the loop listing the devices of the group
DeployList ==
    /\ pc = "deploy_list"
    /\ IsSome(page)
    /\ Unwrap(page) <= PageCap
    /\ LET page_idx == Unwrap(page)
           group == conf.command.group
           req == Request("GET", <<conf.server_url, GROUPS_PATH, group, "/devices">>,
                          PagedQuery(page_idx), Bearer(Unwrap(conf.token)), None)
       IN \E resp \in ListingAnswers(DeviceIds, Remaining) :
            /\ Send(req, resp)
            /\ IF ~resp.sent
               THEN /\ Return(Err(OtherError("reqwest", "send")), "", stdout)
                    /\ UNCHANGED <<page, devices>>
               ELSE IF ~IsSuccess(resp.status)
               THEN /\ Return(Err(MenderError("deployment error, couldn't list devices in group",
                                              group, resp.status, resp.text)), "", stdout)
                    /\ UNCHANGED <<page, devices>>
               ELSE IF ~IsSome(resp.json)
               THEN /\ Return(Err(OtherError("reqwest", "decode")), "", stdout)
                    /\ UNCHANGED <<page, devices>>
               ELSE LET res == Unwrap(resp.json) IN
                    /\ page' = NextPage(page_idx, Len(res))
                    /\ devices' = Extend(devices, res)
                    /\ pc' = IF IsSome(page') THEN "deploy_list" ELSE "deploy_post"
                    /\ UNCHANGED <<result, exit_code, stdout>>
    /\ UNCHANGED <<args, env, command, conf, artifacts_count>>

\* deploy: the deployment request
DeployPost ==
    /\ pc = "deploy_post"
    /\ LET nb_devices == Len(devices)
           c0 == conf.command
           deploy_data == DeployData(c0.artifact, DeployName(c0.group, c0.name), devices)
           req == Request("POST", <<conf.server_url, DEPLOY_API>>, <<>>,
                          Bearer(Unwrap(conf.token)), Some(deploy_data))
       IN \E resp \in DeployAnswers :
            /\ Send(req, resp)
            /\ IF ~resp.sent
               THEN Return(Err(OtherError("reqwest", "send")), "", stdout)
               ELSE IF IsSuccess(resp.status)
               THEN Return(Ok(nb_devices), "Deployed to {} devices", stdout)
               ELSE Return(Err(MenderError("deployment failed", "",
                                           resp.status, resp.text)), "", stdout)
    /\ UNCHANGED <<args, env, command, conf, page, devices, artifacts_count>>

\* (mutant) the first element of the list is taken
PopFront(res) == IF res = <<>> THEN None ELSE Some(res[1])
\* res.pop(): the last element of the list, if any
Pop(res) == IF res = <<>> THEN None ELSE Some(res[Len(res)])

\* (mutant) the last matching record is taken
LastMatch(res, serial_number) ==
    LET found == SelectSeq(res, LAMBDA i : i.identity_data.SerialNumber = serial_number)
    IN IF found = <<>> THEN None ELSE Some(found[Len(found)])
\* res.into_iter().filter(|i| i.identity_data.SerialNumber == serial_number).next()
FirstMatch(res, serial_number) ==
    LET found == SelectSeq(res, LAMBDA i : i.identity_data.SerialNumber = serial_number)
    IN IF found = <<>> THEN None ELSE Some(found[1])

\* get_id, up to the request filtered by the SerialNumber attribute
GetIdInventory ==
    /\ pc = "get_id"
    /\ IF conf.command.variant = "GetId" /\ IsSome(conf.token)
       THEN LET serial_number == conf.command.serial_number
                out == Append(stdout, Line("Searching for device with SerialNumber {}",
                                           serial_number))
                req == Request("GET", <<conf.server_url, GET_DEVICES_INVENTORY_API>>,
                               <<<<"SerialNumber", serial_number>>>>,
                               Bearer(Unwrap(conf.token)), None)
            IN \E c \in ClientOutcomes(conf.cert_file) :
                 IF c # "ok"
                 THEN /\ Return(Err(OtherError(c, "blocking_client")), "", out)
                      /\ UNCHANGED <<page, reqs, resps>>
                 ELSE \E resp \in ListingAnswers({MenderId(d) : d \in DeviceIds}, MaxDevices) :
                        /\ Send(req, resp)
                        /\ IF ~resp.sent
                           THEN /\ Return(Err(OtherError("reqwest", "send")), "", out)
                                /\ UNCHANGED page
                           ELSE IF ~IsSuccess(resp.status)
                           THEN /\ Return(Err(MenderError("searching device failed", "",
                                                          resp.status, resp.text)), "", out)
                                /\ UNCHANGED page
                           ELSE IF ~IsSome(resp.json)
                           THEN /\ Return(Err(OtherError("reqwest", "decode")), "", out)
                                /\ UNCHANGED page
                           ELSE LET mender_id == Pop(Unwrap(resp.json)) IN
                                IF IsSome(mender_id)
                                THEN /\ Return(Ok(Unwrap(mender_id).id), "Mender id is: {}", out)
                                     /\ UNCHANGED page
                                ELSE /\ pc' = "get_id_scan"
                                     /\ page' = Some(FIRST_PAGE)
                                     /\ stdout' = Append(out,
                                          Line("SerialNumber not found in attributes, searching in identity data.", ""))
                                     /\ UNCHANGED <<result, exit_code>>
       ELSE /\ Return(Err(MenderError("Command must be getid and token must be provided in get_id call",
                                      "", 0, "")), "", stdout)
            /\ UNCHANGED <<page, reqs, resps>>
    /\ UNCHANGED <<args, env, command, conf, devices, artifacts_count>>

\* get_id: one iteration of the scan of the identity table
GetIdScan ==
    /\ pc = "get_id_scan"
    /\ IsSome(page)
    /\ Unwrap(page) <= PageCap
    /\ LET page_idx == Unwrap(page)
           serial_number == conf.command.serial_number
           out == Append(stdout, Line(".", ""))
           req == Request("GET", <<conf.server_url, GET_DEVICES_AUTH_API>>,
                          PagedQuery(page_idx) \o <<<<"status", "accepted">>>>,
                          Bearer(Unwrap(conf.token)), None)
       IN \E resp \in ListingAnswers(Identities, Remaining) :
            /\ Send(req, resp)
            /\ IF ~resp.sent
               THEN /\ Return(Err(OtherError("reqwest", "send")), "", out)
                    /\ UNCHANGED page
               ELSE IF ~IsSuccess(resp.status)
               THEN /\ Return(Err(MenderError("searching device failed", "",
                                              resp.status, resp.text)), "", out)
                    /\ UNCHANGED page
               ELSE IF ~IsSome(resp.json)
               THEN /\ Return(Err(OtherError("reqwest", "decode")), "", out)
                    /\ UNCHANGED page
               ELSE LET res == Unwrap(resp.json)
                        nb_results == Len(res)
                        mender_identity == FirstMatch(res, serial_number)
                    IN IF IsSome(mender_identity)
                       THEN /\ Return(Ok(Unwrap(mender_identity).id), "Mender id is: {}",
                                      Append(out, Line("", "")))
                            /\ UNCHANGED page
                       ELSE /\ page' = NextPage(page_idx, nb_results)
                            /\ IF IsSome(page')
                               THEN /\ pc' = "get_id_scan"
                                    /\ stdout' = out
                                    /\ UNCHANGED <<result, exit_code>>
                               ELSE Return(Err(MenderError("SerialNumber not found", "", 0, "")),
                                           "", Append(out, Line("", "")))
    /\ UNCHANGED <<args, env, command, conf, devices, artifacts_count>>

\* serde_json::to_string_pretty
Pretty(json) == <<"pretty", json>>

\* get_info
GetInfoOp ==
    /\ pc = "get_info"
    /\ IF conf.command.variant = "GetInfo" /\ IsSome(conf.token)
       THEN \E c \in ClientOutcomes(conf.cert_file) :
              IF c # "ok"
              THEN /\ Return(Err(OtherError(c, "blocking_client")), "", stdout)
                   /\ UNCHANGED <<reqs, resps>>
              ELSE \E resp \in PlainAnswers({"{}"}) \cup {Undecodable} :
                     /\ Send(Request("GET", <<conf.server_url, GET_DEVICES_INVENTORY_API,
                                              "/", conf.command.id>>, <<>>,
                                     Bearer(Unwrap(conf.token)), None), resp)
                     /\ IF ~resp.sent
                        THEN Return(Err(OtherError("reqwest", "send")), "", stdout)
                        ELSE IF ~IsSuccess(resp.status)
                        THEN Return(Err(MenderError("get info failed", "",
                                                    resp.status, resp.text)), "", stdout)
                        ELSE IF ~IsSome(resp.json)
                        THEN Return(Err(OtherError("reqwest", "decode")), "", stdout)
                        ELSE Return(Ok(Pretty(Unwrap(resp.json))), "{}", stdout)
       ELSE /\ Return(Err(MenderError("Command must be getinfo and token must be provided in get_info call",
                                      "", 0, "")), "", stdout)
            /\ UNCHANGED <<reqs, resps>>
    /\ UNCHANGED <<args, env, command, conf, page, devices, artifacts_count>>

\* MenderDevice::artifact_name: the value of the first attribute named
\* artifact_name, the empty string without one
ArtifactName(device) ==
    IF IsSome(device.attributes)
    THEN LET attributes == Unwrap(device.attributes)
             named == {i \in 1..Len(attributes) : attributes[i].name = "artifact_name"}
         IN IF named = {} THEN ""
            ELSE attributes[CHOOSE i \in named : \A j \in named : i <= j].value
    ELSE ""

\* (mutant) the entry is set to one instead of incremented
CountOneInsert(map, artifact) ==
    [k \in DOMAIN map \cup {artifact} |-> IF k = artifact THEN 1 ELSE map[k]]
\* let count = artifacts_count.entry(artifact).or_insert(0); *count += 1
CountOne(map, artifact) ==
    [k \in DOMAIN map \cup {artifact} |->
        IF k = artifact
        THEN (IF artifact \in DOMAIN map THEN map[artifact] ELSE 0) + 1
        ELSE map[k]]

\* for artifact in artifacts { ... }
RECURSIVE CountAll(_, _)
CountAll(map, artifacts) ==
    IF artifacts = <<>> THEN map
    ELSE CountAll(CountOne(map, artifacts[1]), SubSeq(artifacts, 2, Len(artifacts)))

\* map.iter(): the entries of the HashMap in one of its iteration orders
Iterations(map) ==
    {[i \in 1..Cardinality(DOMAIN map) |-> <<o[i], map[o[i]]>>] :
        o \in {f \in [1..Cardinality(DOMAIN map) -> DOMAIN map] :
                 \A i, j \in 1..Cardinality(DOMAIN map) : f[i] = f[j] => i = j}}

\* vec.sort_by(|a, b| b.1.cmp(a.1)): a stable sort, the larger count first
RECURSIVE SortByCount(_)
SortByCount(vec) ==
    IF vec = <<>> THEN <<>>
    ELSE LET sorted == SortByCount(SubSeq(vec, 1, Len(vec) - 1))
             x == vec[Len(vec)]
             before == Cardinality({i \in 1..Len(sorted) : sorted[i][2] >= x[2]})
         IN SubSeq(sorted, 1, before) \o <<x>> \o SubSeq(sorted, before + 1, Len(sorted))

\* (mutant) the entries are displayed in the iteration order, unsorted
DisplayUnordered(vec) ==
    [i \in 1..Len(vec) |-> <<vec[i][1], ": ", vec[i][2], "\n">>]
\* display_ordered, on the entries as map.iter() gave them: one line
\* "{key}: {value}\n" for each entry of the sorted vector
DisplayOrdered(vec) ==
    LET sorted == SortByCount(vec)
    IN [i \in 1..Len(sorted) |-> <<sorted[i][1], ": ", sorted[i][2], "\n">>]

\* count_artifacts, up to the loop
CountArtifactsEnter ==
    /\ pc = "count_artifacts"
    /\ IF conf.command.variant = "CountArtifacts" /\ IsSome(conf.token)
       THEN LET out == Append(stdout, Line("Inventoring artifact used by devices", ""))
            IN \E c \in ClientOutcomes(conf.cert_file) :
                 IF c = "ok"
                 THEN /\ pc' = "count_loop"
                      /\ page' = Some(FIRST_PAGE)
                      /\ artifacts_count' = [k \in {} |-> 0]
                      /\ stdout' = out
                      /\ UNCHANGED <<result, exit_code>>
                 ELSE /\ Return(Err(OtherError(c, "blocking_client")), "", out)
                      /\ UNCHANGED <<page, artifacts_count>>
       ELSE /\ Return(Err(MenderError("Command must be countartifacts and token must be provided in count_artifacts call",
                                      "", 0, "")), "", stdout)
            /\ UNCHANGED <<page, artifacts_count>>
    /\ UNCHANGED <<args, env, command, conf, devices, reqs, resps>>

\* count_artifacts: one iteration of the loop over the inventory; after the
\* last one, the report
CountLoop ==
    /\ pc = "count_loop"
    /\ IsSome(page)
    /\ Unwrap(page) <= PageCap
    /\ LET page_idx == Unwrap(page)
           out == Append(stdout, Line(".", ""))
           req == Request("GET", <<conf.server_url, GET_DEVICES_INVENTORY_API>>,
                          PagedQuery(page_idx), Bearer(Unwrap(conf.token)), None)
       IN \E resp \in ListingAnswers(InventoryDevices, Remaining) :
            /\ Send(req, resp)
            /\ IF ~resp.sent
               THEN /\ Return(Err(OtherError("reqwest", "send")), "", out)
                    /\ UNCHANGED <<page, artifacts_count>>
               ELSE IF ~IsSuccess(resp.status)
               THEN /\ Return(Err(MenderError("searching device failed", "",
                                              resp.status, resp.text)), "", out)
                    /\ UNCHANGED <<page, artifacts_count>>
               ELSE IF ~IsSome(resp.json)
               THEN /\ Return(Err(OtherError("reqwest", "decode")), "", out)
                    /\ UNCHANGED <<page, artifacts_count>>
               ELSE LET res == Unwrap(resp.json)
                        nb_devices == Len(res)
                        artifacts == [i \in 1..Len(res) |-> ArtifactName(res[i])]
                    IN /\ artifacts_count' = CountAll(artifacts_count, artifacts)
                       /\ page' = NextPageOfInventory(page_idx, nb_devices)
                       /\ IF IsSome(page')
                          THEN /\ pc' = "count_loop"
                               /\ stdout' = out
                               /\ UNCHANGED <<result, exit_code>>
                          ELSE \E vec \in Iterations(artifacts_count') :
                                 Return(Ok(DisplayOrdered(vec)), "{}",
                                        Append(out, Line("", "")))
    /\ UNCHANGED <<args, env, command, conf, devices>>

-----------------------------------------------------------------------------

Next ==
    \/ Main
    \/ Parse
    \/ LoadConfig
    \/ Run
    \/ GetToken
    \/ DeployEnter
    \/ DeployList
    \/ DeployPost
    \/ GetIdInventory
    \/ GetIdScan
    \/ GetInfoOp
    \/ CountArtifactsEnter
    \/ CountLoop

Spec == Init /\ [][Next]_vars

-----------------------------------------------------------------------------
(* The requests of a run, by endpoint *)

IsGroupListing(req) == req.method = "GET" /\ req.url[2] = GROUPS_PATH
IsDeployPost(req) == req.method = "POST" /\ req.url[2] = DEPLOY_API
IsIdentityScan(req) == req.url[2] = GET_DEVICES_AUTH_API
IsInventoryWalk(req) ==
    req.url[2] = GET_DEVICES_INVENTORY_API /\ Len(req.url) = 2 /\ HasQuery(req, "page")
IsInventoryQuery(req) ==
    req.url[2] = GET_DEVICES_INVENTORY_API /\ HasQuery(req, "SerialNumber")
IsPaged(req) == IsGroupListing(req) \/ IsIdentityScan(req) \/ IsInventoryWalk(req)

\* the positions in reqs of the requests satisfying P, in order
IndicesOf(P(_)) == SelectSeq([i \in 1..Len(reqs) |-> i], LAMBDA i : P(reqs[i]))
RequestsOf(P(_)) == [j \in 1..Len(IndicesOf(P)) |-> reqs[IndicesOf(P)[j]]]
AnswersTo(P(_)) == [j \in 1..Len(IndicesOf(P)) |-> resps[IndicesOf(P)[j]]]

\* the answer is a success whose body decoded to a list
Decoded(resp) == resp.sent /\ resp.status \in 200..299 /\ resp.json # None
NonEmptyPage(resp) == Decoded(resp) /\ resp.json[1] # <<>>
EmptyPage(resp) == Decoded(resp) /\ resp.json[1] = <<>>
\* the lists carried by the first n answers of rs
Bodies(rs, n) == [j \in 1..n |-> rs[j].json[1]]

\* the page holds a record with the serial number
Matches(resp, sn) ==
    \E i \in 1..Len(resp.json[1]) : resp.json[1][i].identity_data.SerialNumber = sn

-----------------------------------------------------------------------------
(* Pagination *)

\* C1: in deploy, when the server answers the group-membership requests with
\* the non-empty pages P1..Pn and then an empty page, exactly n+1 membership
\* requests are issued, and the list of devices of the deployment request is
\* P1 \o ... \o Pn, in order and with the duplicates kept.
C1_DeployConcatenatesPages ==
    LET listing == AnswersTo(IsGroupListing) IN
    \A k \in 1..Len(listing) :
        (/\ \A j \in 1..(k - 1) : NonEmptyPage(listing[j])
         /\ EmptyPage(listing[k]))
        => /\ Len(listing) = k
           /\ pc \in {"deploy_post", "exit"}
           /\ devices = Flatten(Bodies(listing, k - 1))
           /\ \A i \in 1..Len(reqs) :
                IsDeployPost(reqs[i])
                => reqs[i].data[1].devices = Flatten(Bodies(listing, k - 1))
           /\ pc = "exit" => Len(IndicesOf(IsDeployPost)) = 1

\* the pages <<d1, d2>>, <<d1>> and the empty page were listed and the
\* deployment of <<d1, d2, d1>> was requested
C1_Witness ==
    /\ pc = "exit"
    /\ Len(AnswersTo(IsGroupListing)) = 3
    /\ Bodies(AnswersTo(IsGroupListing), 2) = << <<"d1", "d2">>, <<"d1">> >>
    /\ EmptyPage(AnswersTo(IsGroupListing)[3])
    /\ \E i \in 1..Len(reqs) :
         IsDeployPost(reqs[i]) /\ reqs[i].data[1].devices = <<"d1", "d2", "d1">>

\* C2: in each paginated loop (deploy, get_id, count_artifacts) the first
\* listing request carries the page index 1 and each later one the previous
\* index plus one; the loop's next request is for the index after the last.
C2_PagesInOrder ==
    LET paged == RequestsOf(IsPaged) IN
    /\ \A j \in 1..Len(paged) :
         /\ QueryValue(paged[j], "page") = ToString(j)
         /\ QueryValue(paged[j], "per_page") = "500"
    /\ pc \in {"deploy_list", "get_id_scan", "count_loop"}
       => page = Some(Len(paged) + 1)

\* three pages were requested by one loop
C2_Witness ==
    /\ Len(RequestsOf(IsIdentityScan)) = 3
    /\ QueryValue(RequestsOf(IsIdentityScan)[3], "page") = "3"
    /\ \A j \in 1..2 : NonEmptyPage(AnswersTo(IsIdentityScan)[j])

\* C3: a successful non-empty page (in get_id, one without a matching record)
\* never ends the loop: the request for the next page index follows it, or is
\* the next step of the loop.
C3_OnlyEmptyPageEnds ==
    \A i \in 1..Len(reqs) :
        (/\ IsPaged(reqs[i])
         /\ NonEmptyPage(resps[i])
         /\ Len(resps[i].json[1]) < 500
         /\ IsIdentityScan(reqs[i]) => ~Matches(resps[i], conf.command.serial_number))
        => IF i < Len(reqs)
           THEN /\ IsPaged(reqs[i + 1])
                /\ reqs[i + 1].url = reqs[i].url
                /\ QueryValue(reqs[i + 1], "page")
                     = ToString(Len(SelectSeq(SubSeq(reqs, 1, i), IsPaged)) + 1)
           ELSE /\ pc \in {"deploy_list", "get_id_scan", "count_loop"}
                /\ page = Some(Len(RequestsOf(IsPaged)) + 1)

\* a page of one item was followed by the request for page 2
C3_Witness ==
    /\ Len(RequestsOf(IsGroupListing)) >= 2
    /\ NonEmptyPage(AnswersTo(IsGroupListing)[1])
    /\ Len(AnswersTo(IsGroupListing)[1].json[1]) = 1
    /\ QueryValue(RequestsOf(IsGroupListing)[2], "page") = "2"

-----------------------------------------------------------------------------
(* Identity resolution *)

NotFound == Err(MenderError("SerialNumber not found", "", 0, ""))

\* C4: in get_id, when the request filtered by SerialNumber succeeds with a
\* non-empty list, get_id returns the id of the last element of the list and
\* sends no request to the identity table.
C4_InventoryMatchReturnsLast ==
    \A i \in 1..Len(reqs) :
        (IsInventoryQuery(reqs[i]) /\ NonEmptyPage(resps[i]))
        => /\ pc = "exit"
           /\ result = Ok(resps[i].json[1][Len(resps[i].json[1])].id)
           /\ Len(RequestsOf(IsIdentityScan)) = 0
           /\ Len(reqs) = 1

\* the inventory answered <<d1, d2>> and d2 was returned
C4_Witness ==
    /\ Len(reqs) = 1
    /\ IsInventoryQuery(reqs[1])
    /\ NonEmptyPage(resps[1])
    /\ resps[1].json[1] = <<MenderId("d1"), MenderId("d2")>>
    /\ result = Ok("d2")
    /\ exit_code = 0

\* the position in the page of its first record with the serial number
FirstMatching(resp, sn) ==
    CHOOSE i \in 1..Len(resp.json[1]) :
        /\ resp.json[1][i].identity_data.SerialNumber = sn
        /\ \A j \in 1..(i - 1) : resp.json[1][j].identity_data.SerialNumber # sn

\* C5: in get_id, when the inventory answers the empty list and page k is the
\* first page of the identity table holding a record with the requested
\* serial number (the pages before it successful and non-empty), get_id
\* returns the id of the first such record of page k, after exactly k requests
\* to the identity table.
C5_ScanReturnsFirstMatch ==
    LET scan == AnswersTo(IsIdentityScan) IN
    \A k \in 1..Len(scan) :
        (/\ \A j \in 1..(k - 1) :
              NonEmptyPage(scan[j]) /\ ~Matches(scan[j], conf.command.serial_number)
         /\ Decoded(scan[k])
         /\ Matches(scan[k], conf.command.serial_number))
        => /\ Len(scan) = k
           /\ Len(reqs) = k + 1
           /\ IsInventoryQuery(reqs[1]) /\ EmptyPage(resps[1])
           /\ pc = "exit"
           /\ result = Ok(scan[k].json[1][FirstMatching(scan[k],
                                              conf.command.serial_number)].id)

\* the second page of the identity table held two records with the serial
\* number, the first of them was returned
C5_Witness ==
    /\ Len(AnswersTo(IsIdentityScan)) = 2
    /\ conf.command.serial_number = "a"
    /\ ~Matches(AnswersTo(IsIdentityScan)[1], "a")
    /\ AnswersTo(IsIdentityScan)[2].json
         = Some(<<MenderIdentity("d2", "a"), MenderIdentity("d1", "a")>>)
    /\ result = Ok("d2")

\* C6: get_id returns "SerialNumber not found" only when the inventory
\* answered the empty list and the scan of the identity table received an
\* empty page after pages that were all non-empty and without a match.
C6_NotFoundOnlyAfterEmptyPage ==
    result = NotFound
    => LET scan == AnswersTo(IsIdentityScan) IN
       /\ IsInventoryQuery(reqs[1]) /\ EmptyPage(resps[1])
       /\ Len(scan) >= 1
       /\ Len(reqs) = Len(scan) + 1
       /\ EmptyPage(scan[Len(scan)])
       /\ \A j \in 1..(Len(scan) - 1) :
            NonEmptyPage(scan[j]) /\ ~Matches(scan[j], conf.command.serial_number)

\* not found after two pages without a match and an empty page
C6_Witness ==
    /\ result = NotFound
    /\ exit_code = 2
    /\ Len(AnswersTo(IsIdentityScan)) = 3

-----------------------------------------------------------------------------
(* Artifact census *)

\* the values of the attributes named artifact_name of a device
ArtifactValues(device) ==
    IF device.attributes = None THEN {}
    ELSE {device.attributes[1][i].value :
            i \in {j \in 1..Len(device.attributes[1]) :
                     device.attributes[1][j].name = "artifact_name"}}
\* the devices received from the inventory, whatever the pages they came in
Inventoried == Flatten(Bodies(SelectSeq(AnswersTo(IsInventoryWalk), Decoded),
                              Len(SelectSeq(AnswersTo(IsInventoryWalk), Decoded))))
\* the number of received devices running the artifact name, the devices
\* without the attribute running ""
Running(name) ==
    Cardinality({i \in 1..Len(Inventoried) :
                   IF ArtifactValues(Inventoried[i]) = {}
                   THEN name = ""
                   ELSE ArtifactValues(Inventoried[i]) = {name}})
CountOf(map, name) == IF name \in DOMAIN map THEN map[name] ELSE 0
RECURSIVE SumOf(_)
SumOf(map) ==
    IF DOMAIN map = {} THEN 0
    ELSE LET k == CHOOSE x \in DOMAIN map : TRUE
         IN map[k] + SumOf([x \in DOMAIN map \ {k} |-> map[x]])

\* C7: over devices with at most one artifact_name attribute each, the
\* mapping of count_artifacts gives each name the number of received devices
\* whose artifact_name attribute has that value, counts the devices without
\* attribute list or without the attribute under "", and sums to the number of
\* devices, however the devices are split into pages.
C7_CensusCounts ==
    (/\ conf.command.variant = "CountArtifacts"
     /\ \A i \in 1..Len(Inventoried) : Cardinality(ArtifactValues(Inventoried[i])) <= 1)
    => /\ \A name \in Values \cup {""} \cup DOMAIN artifacts_count :
            CountOf(artifacts_count, name) = Running(name)
       /\ \A name \in DOMAIN artifacts_count : artifacts_count[name] > 0
       /\ SumOf(artifacts_count) = Len(Inventoried)
       /\ (pc = "exit" /\ result.kind = "Ok")
          => /\ EmptyPage(resps[Len(resps)])
             /\ \A i \in 1..Len(result.value) :
                  result.value[i][3] = CountOf(artifacts_count, result.value[i][1])

\* the devices {artifact_name: a}, {no attributes}, {artifact_name: a} came
\* in two pages and were counted a -> 2, "" -> 1
C7_Witness ==
    /\ pc = "exit"
    /\ result.kind = "Ok"
    /\ conf.command.variant = "CountArtifacts"
    /\ Len(AnswersTo(IsInventoryWalk)) = 3
    /\ Inventoried = <<MenderDevice("d1", Some(<<MenderAttribute("artifact_name", "a")>>)),
                       MenderDevice("d1", None),
                       MenderDevice("d1", Some(<<MenderAttribute("artifact_name", "a")>>))>>
    /\ DOMAIN artifacts_count = {"a", ""}
    /\ artifacts_count["a"] = 2
    /\ artifacts_count[""] = 1

\* C8: the report of count_artifacts holds one line for each (name, count)
\* pair of the mapping, and the counts do not increase from a line to the
\* next.
C8_ReportSortedByCount ==
    (pc = "exit" /\ result.kind = "Ok" /\ conf.command.variant = "CountArtifacts")
    => LET report == result.value IN
       /\ Len(report) = Cardinality(DOMAIN artifacts_count)
       /\ \A name \in DOMAIN artifacts_count :
            Cardinality({i \in 1..Len(report) :
                           report[i][1] = name /\ report[i][3] = artifacts_count[name]}) = 1
       /\ \A i \in 1..Len(report) : \A j \in (i + 1)..Len(report) :
            report[i][3] >= report[j][3]

\* a report of two lines, the name counted twice before the one counted once
C8_Witness ==
    /\ pc = "exit"
    /\ result.kind = "Ok"
    /\ conf.command.variant = "CountArtifacts"
    /\ Len(result.value) = 2
    /\ result.value[1] = <<"b", ": ", 2, "\n">>
    /\ result.value[2] = <<"", ": ", 1, "\n">>

\* C9: when a request of a page of the inventory in count_artifacts returns a
\* non-success status, count_artifacts returns the error of that status, the
\* process prints no report and exits with status 2, and no further request
\* is sent.
C9_CensusFailureDiscardsCounts ==
    \A i \in 1..Len(reqs) :
        (IsInventoryWalk(reqs[i]) /\ resps[i].sent /\ resps[i].status \notin 200..299)
        => /\ i = Len(reqs)
           /\ pc = "exit"
           /\ result.kind = "Err"
           /\ result.err.type = "MenderError"
           /\ result.err.status = resps[i].status
           /\ exit_code = 2
           /\ stdout[Len(stdout)].text = "Run error: {}"
           /\ \A j \in 1..Len(stdout) : stdout[j].text # "{}"

\* the third page failed after two pages had been counted
C9_Witness ==
    /\ Len(RequestsOf(IsInventoryWalk)) = 3
    /\ AnswersTo(IsInventoryWalk)[3] = Failure(500)
    /\ SumOf(artifacts_count) = 2
    /\ result.kind = "Err"

-----------------------------------------------------------------------------
(* Deployment to a device *)

\* the command line is a deploy with the device option, accepted by clap
DeviceTarget ==
    /\ Len(args) >= 2
    /\ args[2] = "deploy"
    /\ GetMatches(args) = "ok"
    /\ IsSome(ClapDevice(args))

\* C10: a deployment to a device target never lists the members of a group,
\* submits the list holding the device id alone and reports one device.
C10_DeviceTargetDeploysToDevice ==
    DeviceTarget
    => /\ Len(RequestsOf(IsGroupListing)) = 0
       /\ \A i \in 1..Len(reqs) :
            IsDeployPost(reqs[i])
            => reqs[i].data[1].devices = <<Unwrap(ClapDevice(args))>>
       /\ (pc = "exit" /\ result.kind = "Ok") => result.value = 1

-----------------------------------------------------------------------------
(* The deploy command line *)

\* the command word is deploy
DeployInvocation == Len(args) >= 2 /\ args[2] = "deploy"
DeployArgs == SubSeq(args, 3, Len(args))
GroupGiven == \E i \in 1..Len(DeployArgs) : DeployArgs[i] = "-g"
DeviceGiven == \E i \in 1..Len(DeployArgs) : DeployArgs[i] = "-d"
\* one target option with its value, an artifact and at most a name
WellFormedDeploy ==
    /\ Cardinality({i \in 1..Len(DeployArgs) : DeployArgs[i] \in {"-g", "-d"}}) = 1
    /\ DeployArgs[Len(DeployArgs)] \notin {"-g", "-d"}
    /\ Len(DeployArgs) \in {3, 4}

AcceptedDeploy == DeployInvocation /\ GetMatches(args) = "ok"
\* the target named on the command line: the group, else the device
TargetName == IF IsSome(ClapGroup(args)) THEN Unwrap(ClapGroup(args))
              ELSE Unwrap(ClapDevice(args))

\* C12: the name of the submitted deployment is the name given on the command
\* line after the artifact when there is one, otherwise the name of the group
\* (of the device for a device target).
C12_DeploymentName ==
    AcceptedDeploy
    => \A i \in 1..Len(reqs) :
         IsDeployPost(reqs[i])
         => reqs[i].data[1].name = (IF IsSome(ClapName(args))
                                    THEN Unwrap(ClapName(args))
                                    ELSE TargetName)

-----------------------------------------------------------------------------
(* Deployment submission *)

\* C13: a run of deploy sends at most one request to the deployment endpoint,
\* and only right after the listing of the group ended with a successful empty
\* page, all pages before it successful; after a listing request answered
\* with a non-success status no deployment is ever requested.
C13_SubmissionAfterCompleteListing ==
    /\ Len(IndicesOf(IsDeployPost)) <= 1
    /\ \A i \in 1..Len(reqs) :
         IsDeployPost(reqs[i])
         => /\ i = Len(reqs)
            /\ i >= 2
            /\ \A j \in 1..(i - 1) : IsGroupListing(reqs[j])
            /\ \A j \in 1..(i - 2) : NonEmptyPage(resps[j])
            /\ EmptyPage(resps[i - 1])
    /\ (\E j \in 1..Len(reqs) :
          IsGroupListing(reqs[j]) /\ resps[j].sent /\ resps[j].status \notin 200..299)
       => Len(IndicesOf(IsDeployPost)) = 0 /\ pc = "exit" /\ result.kind = "Err"

\* the deployment was requested after two pages and the empty page
C13_Witness ==
    /\ Len(reqs) = 4
    /\ IsDeployPost(reqs[4])
    /\ NonEmptyPage(resps[1]) /\ NonEmptyPage(resps[2]) /\ EmptyPage(resps[3])

\* C14: deploy returns Ok(n) only when the deployment request returned a
\* success status, n being the number of ids of the submitted list, duplicates
\* counted; when it returned a non-success status deploy returns an error and
\* no count is reported.
C14_DeployCountsSubmittedDevices ==
    (conf.command.variant = "Deploy" /\ pc = "exit")
    => /\ result.kind = "Ok"
          => /\ IsDeployPost(reqs[Len(reqs)])
             /\ resps[Len(resps)].sent
             /\ resps[Len(resps)].status \in 200..299
             /\ result.value = Len(reqs[Len(reqs)].data[1].devices)
             /\ exit_code = 0
             /\ stdout[Len(stdout)] = Line("Deployed to {} devices",
                                           Len(reqs[Len(reqs)].data[1].devices))
       /\ (/\ reqs # <<>>
           /\ IsDeployPost(reqs[Len(reqs)])
           /\ resps[Len(resps)].sent
           /\ resps[Len(resps)].status \notin 200..299)
          => /\ result.kind = "Err"
             /\ exit_code = 2
             /\ \A i \in 1..Len(stdout) : stdout[i].text # "Deployed to {} devices"

\* the deployment of <<d2, d2, d1>> succeeded and three devices were reported
C14_Witness ==
    /\ pc = "exit"
    /\ reqs # <<>>
    /\ IsDeployPost(reqs[Len(reqs)])
    /\ result.kind = "Ok"
    /\ result.value = 3
    /\ reqs[Len(reqs)].data[1].devices = <<"d2", "d2", "d1">>
    /\ resps[Len(resps)].status = 201

-----------------------------------------------------------------------------
(* Errors *)

\* C15: in every operation the first response with a non-success status ends
\* the operation with an error carrying the status code and the body of that
\* response; the request is not sent again and no other request follows.
C15_NonSuccessIsFatal ==
    \A i \in 1..Len(reqs) :
        (resps[i].sent /\ resps[i].status \notin 200..299)
        => /\ i = Len(reqs)
           /\ \A j \in 1..(i - 1) : resps[j].sent /\ resps[j].status \in 200..299
           /\ pc = "exit"
           /\ result.kind = "Err"
           /\ result.err.type = "MenderError"
           /\ result.err.status = resps[i].status
           /\ result.err.response = resps[i].text
           /\ exit_code = 2

\* the login request was answered 404 and get_token returned the error
C15_Witness ==
    /\ conf.command.variant = "Login"
    /\ Len(reqs) = 1
    /\ resps[1] = Failure(404)
    /\ result.kind = "Err"
    /\ result.err.status = 404
    /\ result.err.response = "denied"

-----------------------------------------------------------------------------
(* Configuration *)

\* Config::new was called
ConfigTried == command \notin {NoCommand, Help} /\ pc # "config"

\* C16: loading the configuration fails, and the process exits with a
\* non-zero status without having sent a request, when SERVER_URL is unset, or
\* when TOKEN is unset and the command is deploy, getid, getinfo or
\* countartifacts; otherwise it succeeds: login needs no TOKEN and CERT_FILE
\* is never needed.
C16_ConfigRequirements ==
    ConfigTried
    => IF \/ env.SERVER_URL = None
          \/ /\ env.TOKEN = None
             /\ args[2] \in {"deploy", "getid", "getinfo", "countartifacts"}
       THEN /\ pc = "exit"
            /\ exit_code = 1
            /\ reqs = <<>>
            /\ conf = NoConf
            /\ stdout[Len(stdout)].text = "Config error: {}"
       ELSE /\ conf.command = command
            /\ conf.server_url = env.SERVER_URL[1]
            /\ conf.token = env.TOKEN
            /\ conf.cert_file = env.CERT_FILE
            /\ \A i \in 1..Len(stdout) : stdout[i].text # "Config error: {}"

\* a deploy without TOKEN was refused by Config::new
C16_Witness ==
    /\ ConfigTried
    /\ command.variant = "Deploy"
    /\ env.SERVER_URL # None
    /\ env.TOKEN = None
    /\ pc = "exit"
    /\ exit_code = 1
    /\ reqs = <<>>

-----------------------------------------------------------------------------
(* Command::new on any argument vector, as the tests of parse.rs call it:    *)
(* without the clap front-end                                                *)

InitParse ==
    /\ pc = "parse"
    /\ args \in ArgVectors
    /\ env \in Environments
    /\ command = NoCommand
    /\ conf = NoConf
    /\ page = None
    /\ devices = <<>>
    /\ artifacts_count = [k \in {} |-> 0]
    /\ reqs = <<>>
    /\ resps = <<>>
    /\ result = NoResult
    /\ exit_code = -1
    /\ stdout = <<>>

NextParse == Parse

ParseSpec == InitParse /\ [][NextParse]_vars

\* the argument vector gives no command word, an unknown one, or too few
\* arguments for its command
BadArguments ==
    \/ Len(args) = 1
    \/ args[2] \notin {"help", "countartifacts", "login", "deploy", "getid", "getinfo"}
    \/ args[2] \in {"login", "getid", "getinfo"} /\ Len(args) < 3
    \/ args[2] = "deploy" /\ Len(args) < 4

\* C17: Command::new returns an error when no command word is given, when it
\* is unrecognized or when a required argument is missing; otherwise it
\* returns the variant of the command word with its fields taken from the
\* following arguments in order, the name of deploy being the empty string
\* when no name argument is given.
C17_CommandNew ==
    pc # "parse"
    => IF BadArguments
       THEN /\ command = NoCommand
            /\ pc = "exit"
            /\ exit_code = 1
            /\ stdout[Len(stdout)].text = "Parse error: {}"
       ELSE command =
              CASE args[2] = "help" -> Help
                [] args[2] = "countartifacts" -> CountArtifacts
                [] args[2] = "login" -> Login(args[3])
                [] args[2] = "getid" -> GetId(args[3])
                [] args[2] = "getinfo" -> GetInfo(args[3])
                [] args[2] = "deploy" ->
                     Deploy(args[3], args[4], IF Len(args) >= 5 THEN args[5] ELSE "")

-----------------------------------------------------------------------------
(* Identity resolution: the fallback *)

\* C18: get_id scans the identity table only after the inventory request
\* succeeded and decoded to the empty list; when the inventory request returns
\* a non-success status, get_id returns an error without any request to the
\* identity table.
C18_ScanOnlyAfterEmptyInventory ==
    /\ (pc = "get_id_scan" \/ Len(RequestsOf(IsIdentityScan)) > 0)
       => /\ IsInventoryQuery(reqs[1])
          /\ EmptyPage(resps[1])
          /\ \A i \in 2..Len(reqs) : IsIdentityScan(reqs[i])
    /\ \A i \in 1..Len(reqs) :
         (IsInventoryQuery(reqs[i]) /\ resps[i].sent /\ resps[i].status \notin 200..299)
         => /\ Len(reqs) = 1
            /\ pc = "exit"
            /\ result.kind = "Err"
            /\ result # NotFound
            /\ exit_code = 2

\* the inventory request was answered 404 with the body [] and get_id
\* returned the error
C18_Witness ==
    /\ Len(reqs) = 1
    /\ IsInventoryQuery(reqs[1])
    /\ resps[1] = FailureWithList
    /\ pc = "exit"
    /\ result.kind = "Err"

-----------------------------------------------------------------------------
(* The front-end and the parsed command *)

\* C19: for every deploy command line accepted by main with the group G given
\* by -g and the artifact A, the membership requests of deploy are for the
\* group G and the deployment request carries the artifact name A.
C19_ParsedDeployAgreesWithFrontEnd ==
    (AcceptedDeploy /\ IsSome(ClapGroup(args)))
    => \A i \in 1..Len(reqs) :
         /\ IsGroupListing(reqs[i]) => reqs[i].url[3] = Unwrap(ClapGroup(args))
         /\ IsDeployPost(reqs[i])
            => reqs[i].data[1].artifact_name = Unwrap(ClapArtifact(args))

-----------------------------------------------------------------------------
(* Termination *)

\* the process always takes its next step: every call of the client returns
Fairness == WF_vars(Next)
LiveSpec == Init /\ [][Next]_vars /\ Fairness

\* the last answer of a paginated loop asks for one more page
MorePages ==
    /\ reqs # <<>>
    /\ IsPaged(reqs[Len(reqs)])
    /\ NonEmptyPage(resps[Len(resps)])
    /\ IsIdentityScan(reqs[Len(reqs)])
       => ~Matches(resps[Len(resps)], conf.command.serial_number)

\* C20: every paginated operation returns once the server has answered a page
\* index with an empty page, a non-success status or (get_id) a matching
\* page, which a server holding finitely many items does; the client itself
\* never ends a loop while the pages are non-empty and without a match,
\* whatever their number.
C20_Terminates ==
    /\ <>(pc = "exit")
    /\ [](MorePages => pc \in {"deploy_list", "get_id_scan", "count_loop"})

\* count_artifacts returned after as many pages as the server held devices,
\* and the empty page
C20_Witness ==
    /\ pc = "exit"
    /\ conf.command.variant = "CountArtifacts"
    /\ Len(RequestsOf(IsInventoryWalk)) = MaxDevices + 1
    /\ EmptyPage(resps[Len(resps)])
    /\ result.kind = "Ok"

-----------------------------------------------------------------------------
(* Undecodable bodies *)

\* a success status whose body is not of the expected item shape
UndecodablePage(req, resp) ==
    IsPaged(req) /\ resp.sent /\ resp.status \in 200..299 /\ ~IsSome(resp.json)

\* C21: a page answered with a success status and a body that does not decode
\* is the last request of the operation, and the operation returns a fetch
\* error carrying the status code and the raw body of that response.
C21_UndecodableIsFetchError ==
    \A i \in 1..Len(reqs) :
        UndecodablePage(reqs[i], resps[i])
        => /\ i = Len(reqs)
           /\ pc = "exit"
           /\ result.kind = "Err"
           /\ result.err.type = "MenderError"
           /\ result.err.status = resps[i].status
           /\ result.err.response = resps[i].text

-----------------------------------------------------------------------------
(* The operations called with any configuration *)

\* the values of the public struct Config: any command with any token and
\* certificate path
Configs ==
    [command : {Login("a"), Deploy("a", "b", ""), GetId("a"), GetInfo("a"),
                CountArtifacts},
     token : {None, Some("tok")},
     server_url : {"https://mender"},
     cert_file : {None, Some("ca.pem")}]

\* a caller other than run calls one of the public operations with a
\* configuration it built itself
InitCall ==
    /\ pc \in {"get_token", "deploy", "get_id", "get_info", "count_artifacts"}
    /\ conf \in Configs
    /\ args = <<>>
    /\ env = [SERVER_URL |-> Some(conf.server_url), TOKEN |-> conf.token,
              CERT_FILE |-> conf.cert_file]
    /\ command = NoCommand
    /\ page = None
    /\ devices = <<>>
    /\ artifacts_count = [k \in {} |-> 0]
    /\ reqs = <<>>
    /\ resps = <<>>
    /\ result = NoResult
    /\ exit_code = -1
    /\ stdout = <<>>

\* the process started from main, or an operation called directly
InitAny == Init \/ InitCall
CallSpec == InitAny /\ [][Next]_vars

Variants == {"Login", "Deploy", "GetId", "GetInfo", "CountArtifacts"}
\* the control points of the operation of a variant, the first one its entry
LabelsOf(v) ==
    CASE v = "Login" -> <<"get_token">>
      [] v = "Deploy" -> <<"deploy", "deploy_list", "deploy_post">>
      [] v = "GetId" -> <<"get_id", "get_id_scan">>
      [] v = "GetInfo" -> <<"get_info">>
      [] v = "CountArtifacts" -> <<"count_artifacts", "count_loop">>
Inside(v) == \E k \in 1..Len(LabelsOf(v)) : pc = LabelsOf(v)[k]
InsideNext(v) == \E k \in 1..Len(LabelsOf(v)) : pc' = LabelsOf(v)[k]
\* the configuration is not the one the operation of v works with
Refused(v) == conf.command.variant # v \/ (v # "Login" /\ ~IsSome(conf.token))
\* the request is one the operation of v sends
RequestOf(v, req) ==
    CASE v = "Login" -> req.url[2] = LOGIN_API
      [] v = "Deploy" -> IsGroupListing(req) \/ IsDeployPost(req)
      [] v = "GetId" -> IsInventoryQuery(req) \/ IsIdentityScan(req)
      [] v = "GetInfo" -> req.url[2] = GET_DEVICES_INVENTORY_API /\ Len(req.url) = 4
      [] v = "CountArtifacts" -> IsInventoryWalk(req)

\* every request is one of the operation of the configured command, which
\* was given its token
OnlyOwnRequests ==
    \A i \in 1..Len(reqs) :
        \E v \in Variants :
            /\ conf.command.variant = v
            /\ ~Refused(v)
            /\ RequestOf(v, reqs[i])

\* run enters the operation of the parsed command and no other, control stays
\* in that operation until the exit, and an operation called with a
\* configuration it does not work with returns an error at once
OneOperationStep ==
    /\ (pc = "run" /\ pc' # "exit")
       => /\ conf.command = command
          /\ command.variant \in Variants
          /\ pc' = LabelsOf(command.variant)[1]
    /\ \A v \in Variants :
        /\ Inside(v) => (InsideNext(v) \/ pc' = "exit")
        /\ InsideNext(v) => (Inside(v) \/ pc = "run")
        /\ (pc = LabelsOf(v)[1] /\ Refused(v))
           => /\ pc' = "exit"
              /\ reqs' = reqs
              /\ result'.kind = "Err"
              /\ result'.err.type = "MenderError"

\* C22: a run enters at most one operation, the one of the parsed command
\* variant, and all its requests are that operation's; an operation called
\* with a configuration of another variant, or (but for get_token) without a
\* token, sends no request and returns an error.
C22_OneOperationPerRun ==
    /\ []OnlyOwnRequests
    /\ [][OneOperationStep]_vars

\* deploy was called with a Deploy command and no token, and returned its
\* error without a request
C22_Witness ==
    /\ pc = "exit"
    /\ conf.command.variant = "Deploy"
    /\ conf.token = None
    /\ reqs = <<>>
    /\ result.kind = "Err"
    /\ result.err.msg = "Command must be Deploy and token must be provided for deploy"

-----------------------------------------------------------------------------
(* The configuration is read-only *)

OperationLabels ==
    {"get_token", "deploy", "deploy_list", "deploy_post", "get_id", "get_id_scan",
     "get_info", "count_artifacts", "count_loop"}

\* every request authenticated with a bearer token carries the token of the
\* configuration, which is the TOKEN the environment held at startup
SameToken ==
    \A i \in 1..Len(reqs) :
        reqs[i].auth.scheme = "bearer"
        => /\ IsSome(conf.token)
           /\ conf.token = env.TOKEN
           /\ reqs[i].auth.secret = Unwrap(conf.token)
           /\ reqs[i].url[1] = conf.server_url

\* C23: no step of an operation changes the configuration (command, token,
\* server URL, certificate path), and every bearer-authenticated request of
\* the run carries the token loaded at startup.
ConfigKept == pc \in OperationLabels => conf' = conf
C23_ConfigReadOnly ==
    /\ []SameToken
    /\ [][ConfigKept]_vars

\* get_id sent its inventory query and two pages of the identity scan with
\* the token, under a configuration with a certificate path
C23_Witness ==
    /\ pc = "exit"
    /\ conf.command.variant = "GetId"
    /\ IsSome(conf.cert_file)
    /\ Len(reqs) = 3
    /\ \A i \in 1..3 : reqs[i].auth = Bearer("tok")

-----------------------------------------------------------------------------
(* Exit status *)

\* Command::new rejects the command line
ParseError == CommandNew(args).kind = "Err"
\* Config::new rejects the environment for the parsed command
ConfigError ==
    /\ GetMatches(args) = "ok"
    /\ ~ParseError
    /\ CommandNew(args).value # Help
    /\ ConfigNew(CommandNew(args).value, env).kind = "Err"
\* no operation was entered: nothing was sent and nothing returned
NoOperationRan == reqs = <<>> /\ resps = <<>> /\ result = NoResult /\ conf = NoConf
HelpCommand == Len(args) >= 2 /\ args[2] = "help"

====
